---- MODULE Spec2Model ----
(***************************************************************************)
(* gpu_watch.py: a polling loop that reads GPU telemetry from nvidia-smi,  *)
(* classifies every device as idle or busy against two thresholds, prints  *)
(* a status report, raises a local alert when idle devices exist and       *)
(* optionally hands a message to an SMTP transport, then sleeps.           *)
(*                                                                         *)
(* The text nvidia-smi prints is modelled as a sequence of lines, a line   *)
(* as the sequence of its comma-separated, stripped fields, and a field as *)
(* a string: a decimal numeral or a token int() rejects.                   *)
(***************************************************************************)
EXTENDS Integers, Sequences, FiniteSets, TLC

VARIABLES
    cfg,        \* args: the parsed command line, SMTP settings after the env fallback
    pc,         \* position of main() in the loop body
    gpus,       \* local gpus: the parsed reading of the current cycle
    idle,       \* local idle: the devices of gpus classified idle
    log,        \* observation: what the current cycle has done so far, in order
    status,     \* observation: the devices listed by the status report of this cycle
    alert,      \* observation: the index list named by the ALERT line of this cycle
    sentMsg,    \* observation: the messages handed to the mail transport this cycle
    mail,       \* the mail transport's behaviour for the send in progress
    exitCode,   \* process exit status, NoExit while running
    uncaught,   \* TRUE when main() was left by an uncaught exception
    gap,        \* observation: sleeps between the previous check and this one (-1: first)
    sleptFor,   \* observation: duration of the last sleep (0: never slept)
    repeat,     \* observation: this cycle's idle list equals the list alerted last cycle
    prevMailed  \* observation: the previous cycle contacted the mail transport

vars == <<cfg, pc, gpus, idle, log, status, alert, sentMsg, mail, exitCode,
          uncaught, gap, sleptFor, repeat, prevMailed>>

(***************************************************************************)
(* Bounds of the model.                                                    *)
(***************************************************************************)
MaxLines == 2
MaxVal == 1

(***************************************************************************)
(* Program constants.                                                      *)
(***************************************************************************)
DefaultInterval == 5

NoExit == 0 - 1

\* Decimal numerals of the integers the bounded readings use.
Digits == <<"0", "1", "2", "3", "4", "5", "6", "7", "8", "9">>

str(n) == Digits[n + 1]

\* int(p) succeeds exactly on numerals; any other token raises ValueError.
IsInt(p) == \E i \in 1..Len(Digits) : Digits[i] = p

int(p) == (CHOOSE i \in 1..Len(Digits) : Digits[i] = p) - 1

NotAvailable == "[N/A]"

(***************************************************************************)
(* _parse_nvidia_smi: a line that does not split into four fields is       *)
(* skipped, a line of four fields is converted field by field with int().  *)
(***************************************************************************)
LineRaises(parts) == Len(parts) = 4 /\ \E j \in 1..4 : ~IsInt(parts[j])

\* map(int, parts) raises ValueError on some line: the exception leaves main().
ParseRaises(output) == \E i \in 1..Len(output) : LineRaises(output[i])

ParseLine(parts) ==
    [index |-> int(parts[1]), util |-> int(parts[2]),
     mem_used |-> int(parts[3]), mem_total |-> int(parts[4])]

RECURSIVE parse_nvidia_smi(_)
parse_nvidia_smi(output) ==
    IF output = <<>> THEN <<>>
    ELSE IF Len(Head(output)) # 4 THEN parse_nvidia_smi(Tail(output))
    ELSE <<ParseLine(Head(output))>> \o parse_nvidia_smi(Tail(output))

(***************************************************************************)
(* _is_gpu_idle and the classification of a reading (line 103).            *)
(***************************************************************************)
is_gpu_idle_strict(gpu, util_th, mem_th) ==
    gpu.util < util_th /\ gpu.mem_used <= mem_th

is_gpu_idle(gpu, util_th, mem_th) ==
    gpu.util <= util_th /\ gpu.mem_used <= mem_th

IdleOf(gs, util_th, mem_th) ==
    SelectSeq(gs, LAMBDA g : is_gpu_idle(g, util_th, mem_th))

IdleIdsByPosition(devs) == [i \in 1..Len(devs) |-> i - 1]

\* idle_ids (line 114): the indexes of the idle devices, in list order.
IdleIds(devs) == [i \in 1..Len(devs) |-> devs[i].index]

\* The four SMTP settings line 129 requires.  c.smtp holds those that are
\* given: host, sender and recipients on the command line or in the
\* environment, the port on the command line; c.env_port is the text of
\* SMTP_PORT, "" when it is unset or empty.
SmtpKeys == {"smtp_host", "smtp_port", "smtp_sender", "recipients"}

\* Line 123: without --smtp_port, int() is applied to SMTP_PORT in every
\* alerting cycle with --email and raises ValueError on a text it rejects.
PortRaises(c) ==
    "smtp_port" \notin c.smtp /\ c.env_port # "" /\ ~IsInt(c.env_port)

\* Lines 122-127: the settings that are truthy after the fallback.
Settings(c) ==
    c.smtp \cup
    (IF "smtp_port" \notin c.smtp /\ c.env_port # "" /\ int(c.env_port) # 0
     THEN {"smtp_port"} ELSE {})

\* Line 129, reached when line 123 did not raise.
SmtpComplete(c) == ~PortRaises(c) /\ Settings(c) = SmtpKeys

(***************************************************************************)
(* Inputs.  nvidia-smi prints one line per device, device i-1 on line i.   *)
(* A line carries numerals, or a token int() rejects in the utilization    *)
(* column, or lacks a column.  The loop is driven with devices whose       *)
(* utilization and used memory take the same value; the classification     *)
(* itself is exercised on every combination (ClassifySpec).                *)
(***************************************************************************)
Values == 0..MaxVal

GoodLine(idx, u, m) == <<str(idx), str(u), str(m), str(MaxVal)>>

BadLines(idx) ==
    { <<str(idx), NotAvailable, str(0), str(MaxVal)>>,
      <<str(idx), str(0), str(0)>> }

LoopLinesAt(i) == {GoodLine(i - 1, v, v) : v \in Values} \cup BadLines(i - 1)

AnyLines ==
    {GoodLine(idx, u, m) : idx \in 0..(MaxLines - 1), u \in Values, m \in Values}
    \cup UNION {BadLines(idx) : idx \in 0..(MaxLines - 1)}

LoopOutputs ==
    UNION { {o \in [1..n -> UNION {LoopLinesAt(i) : i \in 1..MaxLines}] :
                \A i \in 1..n : o[i] \in LoopLinesAt(i)} : n \in 0..MaxLines }

AnyOutputs == UNION { [1..n -> AnyLines] : n \in 0..MaxLines }

SmtpChoices ==
    {SmtpKeys} \cup {SmtpKeys \ {k} : k \in SmtpKeys}
    \cup {SmtpKeys \ {"smtp_host", "smtp_port"}}

\* Texts of SMTP_PORT: unset, zero, a port, a text int() rejects.
EnvPorts == {"", str(0), str(1), "abc"}

\* SMTP_PORT is varied where it is read, and set to a rejected text once
\* where --smtp_port keeps it from being read.
EnvPortsFor(s) ==
    IF "smtp_port" \notin s THEN EnvPorts
    ELSE IF s = SmtpKeys THEN {"", "abc"}
    ELSE {""}

\* The command lines the loop is run with.
Configs ==
    { [interval |-> DefaultInterval, util_th |-> t, mem_th |-> t, once |-> o,
       json |-> j, email |-> e, smtp |-> s, env_port |-> p] :
         t \in Values, o \in BOOLEAN, j \in BOOLEAN, e \in BOOLEAN,
         s \in SmtpChoices, p \in EnvPorts }

\* Every pair of thresholds, for the classification alone.
ThresholdConfigs ==
    { [interval |-> DefaultInterval, util_th |-> u, mem_th |-> m, once |-> TRUE,
       json |-> FALSE, email |-> FALSE, smtp |-> SmtpKeys, env_port |-> ""] :
         u \in Values, m \in Values }

Count(seq, e) == Cardinality({i \in 1..Len(seq) : seq[i] = e})

Did(e) == Count(log, e) > 0

(***************************************************************************)
(* State after argument parsing, before the first iteration (line 95).     *)
(***************************************************************************)
Start ==
    /\ gpus = <<>>
    /\ idle = <<>>
    /\ log = <<>>
    /\ status = <<>>
    /\ alert = <<>>
    /\ sentMsg = <<>>
    /\ mail = "none"
    /\ exitCode = NoExit
    /\ uncaught = FALSE
    /\ gap = 0 - 1
    /\ sleptFor = 0
    /\ repeat = FALSE
    /\ prevMailed = FALSE

Init ==
    /\ cfg \in Configs
    /\ cfg.env_port \in EnvPortsFor(cfg.smtp)
    /\ (~cfg.email => cfg.smtp = SmtpKeys)
    /\ pc = "read"
    /\ Start

\* What a new iteration starts from: the observations of the cycle are
\* emptied, those about the previous cycle are taken from it.
NewCycle(newIdle) ==
    /\ status' = <<>>
    /\ alert' = <<>>
    /\ sentMsg' = <<>>
    /\ mail' = "none"
    /\ gap' = IF log = <<>> THEN 0 - 1 ELSE Count(log, "sleep")
    /\ repeat' = (Did("alert") /\ newIdle # <<>> /\ IdleIds(newIdle) = alert)
    /\ prevMailed' = Did("smtp")

(***************************************************************************)
(* Lines 96-100: nvidia-smi cannot be run or exits non-zero.               *)
(***************************************************************************)
ReadFailsRetry ==
    /\ pc = "read"
    /\ NewCycle(<<>>)
    /\ log' = <<"error">>
    /\ pc' = "tail"
    /\ UNCHANGED <<cfg, gpus, idle, exitCode, uncaught, sleptFor>>

ReadFails ==
    /\ pc = "read"
    /\ NewCycle(<<>>)
    /\ log' = <<"error">>
    /\ exitCode' = 2
    /\ pc' = "done"
    /\ UNCHANGED <<cfg, gpus, idle, uncaught, sleptFor>>

(***************************************************************************)
(* Lines 97, 102: the read succeeds and int() rejects a field: ValueError  *)
(* is caught nowhere, the interpreter prints the traceback and exits 1.    *)
(***************************************************************************)
ParseCrash ==
    /\ pc = "read"
    /\ \E out \in LoopOutputs :
        /\ ParseRaises(out)
        /\ NewCycle(<<>>)
    /\ log' = <<"read">>
    /\ uncaught' = TRUE
    /\ exitCode' = 1
    /\ pc' = "done"
    /\ UNCHANGED <<cfg, gpus, idle, sleptFor>>

(***************************************************************************)
(* Lines 97, 102, 103: read, parse, classify.                              *)
(***************************************************************************)
Check ==
    /\ pc = "read"
    /\ \E out \in LoopOutputs :
        /\ ~ParseRaises(out)
        /\ gpus' = parse_nvidia_smi(out)
        /\ idle' = IdleOf(parse_nvidia_smi(out), cfg.util_th, cfg.mem_th)
        /\ NewCycle(IdleOf(parse_nvidia_smi(out), cfg.util_th, cfg.mem_th))
    /\ log' = <<"read">>
    /\ pc' = "report"
    /\ UNCHANGED <<cfg, exitCode, uncaught, sleptFor>>

(***************************************************************************)
(* Lines 105-111: the status report, as JSON or one text line per device;  *)
(* either form lists every device of gpus.  Line 113 then branches.        *)
(***************************************************************************)
HasIdleUnlessRepeated == idle # <<>> /\ ~repeat

HasIdleOrDevices == gpus # <<>>

HasIdle == idle # <<>>

Report ==
    /\ pc = "report"
    /\ status' = gpus
    /\ log' = Append(log, IF cfg.json THEN "status_json" ELSE "status")
    /\ pc' = IF HasIdle THEN "alert" ELSE "tail"
    /\ UNCHANGED <<cfg, gpus, idle, alert, sentMsg, mail, exitCode, uncaught,
                   gap, sleptFor, repeat, prevMailed>>

(***************************************************************************)
(* Lines 114-121: the ALERT line and the bell, then the --email branch.    *)
(***************************************************************************)
EmailAlways == TRUE

EmailEnabled == cfg.email

Alert ==
    /\ pc = "alert"
    /\ alert' = IdleIds(idle)
    /\ log' = log \o <<"alert", "bell">>
    /\ pc' = IF EmailEnabled THEN "email" ELSE "tail"
    /\ UNCHANGED <<cfg, gpus, idle, status, sentMsg, mail, exitCode, uncaught,
                   gap, sleptFor, repeat, prevMailed>>

(***************************************************************************)
(* Lines 122-151: the send is attempted when the four settings are there,  *)
(* and skipped with a message otherwise.  _send_email opens the SMTP       *)
(* session with no timeout: the transport answers, refuses, or never       *)
(* answers, and the call returns only in the first two cases.              *)
(***************************************************************************)
\* Line 123 raises: ValueError leaves main() after the alert, before
\* anything about the email is printed; the interpreter exits 1.
EnvPortCrash ==
    /\ pc = "email"
    /\ PortRaises(cfg)
    /\ uncaught' = TRUE
    /\ exitCode' = 1
    /\ pc' = "done"
    /\ UNCHANGED <<cfg, gpus, idle, log, status, alert, sentMsg, mail,
                   gap, sleptFor, repeat, prevMailed>>

SmtpReadyThrottled == SmtpComplete(cfg) /\ ~prevMailed

SmtpReady == SmtpComplete(cfg)

send_email_detached ==
    /\ pc = "email"
    /\ ~PortRaises(cfg)
    /\ SmtpReady
    /\ sentMsg' = Append(sentMsg, [subject |-> alert, body |-> gpus])
    /\ log' = Append(log, "smtp")
    /\ mail' = "none"
    /\ pc' = "tail"
    /\ UNCHANGED <<cfg, gpus, idle, status, alert, exitCode, uncaught,
                   gap, sleptFor, repeat, prevMailed>>

send_email ==
    /\ pc = "email"
    /\ ~PortRaises(cfg)
    /\ SmtpReady
    /\ sentMsg' = Append(sentMsg, [subject |-> alert, body |-> gpus])
    /\ log' = Append(log, "smtp")
    /\ mail' \in {"ok", "error", "hang"}
    /\ pc' = "sending"
    /\ UNCHANGED <<cfg, gpus, idle, status, alert, exitCode, uncaught,
                   gap, sleptFor, repeat, prevMailed>>

SkipEmail ==
    /\ pc = "email"
    /\ ~PortRaises(cfg)
    /\ ~SmtpReady
    /\ log' = Append(log, "skipped")
    /\ pc' = "tail"
    /\ UNCHANGED <<cfg, gpus, idle, status, alert, sentMsg, mail, exitCode,
                   uncaught, gap, sleptFor, repeat, prevMailed>>

MailSent ==
    /\ pc = "sending"
    /\ mail = "ok"
    /\ log' = Append(log, "sent")
    /\ mail' = "none"
    /\ pc' = "tail"
    /\ UNCHANGED <<cfg, gpus, idle, status, alert, sentMsg, exitCode,
                   uncaught, gap, sleptFor, repeat, prevMailed>>

MailFailedFatal ==
    /\ pc = "sending"
    /\ mail = "error"
    /\ log' = Append(log, "failed")
    /\ mail' = "none"
    /\ uncaught' = TRUE
    /\ exitCode' = 1
    /\ pc' = "done"
    /\ UNCHANGED <<cfg, gpus, idle, status, alert, sentMsg,
                   gap, sleptFor, repeat, prevMailed>>

MailFailed ==
    /\ pc = "sending"
    /\ mail = "error"
    /\ log' = Append(log, "failed")
    /\ mail' = "none"
    /\ pc' = "tail"
    /\ UNCHANGED <<cfg, gpus, idle, status, alert, sentMsg, exitCode,
                   uncaught, gap, sleptFor, repeat, prevMailed>>

(***************************************************************************)
(* Lines 152-158: --once returns 0 after an alert and 1 without one;       *)
(* otherwise the loop sleeps args.interval and starts over.                *)
(***************************************************************************)
ExitOnce ==
    /\ pc = "tail"
    /\ cfg.once
    /\ exitCode' = IF idle # <<>> THEN 0 ELSE 1
    /\ pc' = "done"
    /\ UNCHANGED <<cfg, gpus, idle, log, status, alert, sentMsg, mail,
                   uncaught, gap, sleptFor, repeat, prevMailed>>

SleepUnlessAlerted ==
    /\ pc = "tail"
    /\ ~cfg.once
    /\ log' = IF idle # <<>> THEN log ELSE Append(log, "sleep")
    /\ sleptFor' = IF idle # <<>> THEN sleptFor ELSE cfg.interval
    /\ pc' = "read"
    /\ UNCHANGED <<cfg, gpus, idle, status, alert, sentMsg, mail, exitCode,
                   uncaught, gap, repeat, prevMailed>>

Sleep ==
    /\ pc = "tail"
    /\ ~cfg.once
    /\ log' = Append(log, "sleep")
    /\ sleptFor' = cfg.interval
    /\ pc' = "read"
    /\ UNCHANGED <<cfg, gpus, idle, status, alert, sentMsg, mail, exitCode,
                   uncaught, gap, repeat, prevMailed>>

Next ==
    \/ ReadFails
    \/ ParseCrash
    \/ Check
    \/ Report
    \/ Alert
    \/ EnvPortCrash
    \/ send_email
    \/ SkipEmail
    \/ MailSent
    \/ MailFailed
    \/ ExitOnce
    \/ Sleep

Spec == Init /\ [][Next]_vars

\* main() is one thread: whenever a step of it can run, it runs.  A mail
\* transport that never answers leaves no step to run.
FairSpec == Spec /\ WF_vars(Next)

(***************************************************************************)
(* The classification alone, on every line shape and threshold pair.       *)
(***************************************************************************)
ClassifyInit ==
    /\ cfg \in ThresholdConfigs
    /\ pc = "input"
    /\ Start

Classify ==
    /\ pc = "input"
    /\ \E out \in AnyOutputs :
        /\ ~ParseRaises(out)
        /\ gpus' = parse_nvidia_smi(out)
        /\ idle' = IdleOf(parse_nvidia_smi(out), cfg.util_th, cfg.mem_th)
    /\ pc' = "classified"
    /\ UNCHANGED <<cfg, log, status, alert, sentMsg, mail, exitCode, uncaught,
                   gap, sleptFor, repeat, prevMailed>>

ClassifyNext == Classify

ClassifySpec == ClassifyInit /\ [][ClassifyNext]_vars

(***************************************************************************)
(* Vocabulary of the properties.                                           *)
(***************************************************************************)
\* The current cycle read and classified its telemetry.
\* The conversion of the reading raised (lines 28, 102).
ParseFailed == uncaught /\ log = <<"read">>

Checked == Did("read") /\ ~ParseFailed

\* Positions after the alert decision of line 113.
PastAlert == {"email", "sending", "tail", "read", "done"}

\* Positions after the email branch of lines 121-151 is resolved.
PastEmail == {"tail", "read", "done"}

MeetsThresholds(g) == g.util <= cfg.util_th /\ g.mem_used <= cfg.mem_th

\* The positions in gpus of the devices within both thresholds, and the
\* j-th of them in reading order.
WithinAt == {i \in 1..Len(gpus) : MeetsThresholds(gpus[i])}

Nth(S, j) == CHOOSE k \in S : Cardinality({x \in S : x < k}) = j - 1

(***************************************************************************)
(* C1.  In a cycle whose telemetry read succeeded, the local alert (the    *)
(* ALERT line and the bell) is raised if and only if some device of the    *)
(* reading is within both thresholds; an empty or all-busy reading, and a  *)
(* reading that could not be converted, raise none.                        *)
(***************************************************************************)
C1_AlertIffIdle ==
    /\ Did("alert") =>
          /\ Checked
          /\ \E i \in 1..Len(gpus) : MeetsThresholds(gpus[i])
          /\ Count(log, "alert") = 1
          /\ Count(log, "bell") = 1
    /\ (Checked /\ pc \in PastAlert) =>
          (Did("alert") <=> \E i \in 1..Len(gpus) : MeetsThresholds(gpus[i]))
    /\ ParseFailed => (alert = <<>> /\ status = <<>>)

C1_Witness ==
    /\ pc = "tail"
    /\ Did("alert")
    /\ Len(gpus) = 2
    /\ Len(idle) = 1

(***************************************************************************)
(* C2.  The idle list is exactly the devices of the reading with           *)
(* util <= util_th and mem_used <= mem_th, both bounds inclusive, in       *)
(* reading order, for every reading and every pair of thresholds.          *)
(***************************************************************************)
C2_IdleExactlyWithinThresholds ==
    pc = "classified" =>
        /\ Len(idle) = Cardinality(WithinAt)
        /\ \A j \in 1..Len(idle) : idle[j] = gpus[Nth(WithinAt, j)]

C2_Witness ==
    /\ pc = "classified"
    /\ Len(gpus) = 2
    /\ Len(idle) = 1
    /\ idle[1].util = cfg.util_th
    /\ idle[1].mem_used = cfg.mem_th
    /\ idle[1] = gpus[2]

(***************************************************************************)
(* C3.  In continuous mode, once a cycle has started an email send, the    *)
(* next telemetry check eventually happens, however the mail transport     *)
(* behaves.                                                                *)
(***************************************************************************)
C3_SendNeverBlocksLoop ==
    (pc = "sending" /\ ~cfg.once) ~> (pc = "report" \/ pc = "done")

(***************************************************************************)
(* C4, as claimed.  Devices that stay idle over consecutive cycles do not  *)
(* get an email in every one of those cycles: a cycle that repeats the     *)
(* idle list of a cycle that mailed does not mail again.                   *)
(***************************************************************************)
C4_NoEmailInConsecutiveCycles ==
    ~(repeat /\ prevMailed /\ Did("smtp"))

(***************************************************************************)
(* C4, amended.  With email enabled and the SMTP settings complete, every  *)
(* cycle that raises the alert hands exactly one message to the mail       *)
(* transport, also when the previous cycle mailed about the same devices;  *)
(* the only spacing between two sends is the sleep between the cycles.     *)
(***************************************************************************)
C4_OneEmailPerAlertingCycle ==
    /\ (pc \in {"sending"} \cup PastEmail /\ Did("alert") /\ cfg.email
            /\ SmtpComplete(cfg)) =>
          /\ Count(log, "smtp") = 1
          /\ Len(sentMsg) = 1
    /\ (prevMailed /\ Did("smtp")) => gap = 1

C4_Witness ==
    /\ repeat
    /\ prevMailed
    /\ Did("smtp")
    /\ Len(sentMsg) = 1

(***************************************************************************)
(* C5.  Between two consecutive checks there is exactly one sleep, of      *)
(* args.interval, whatever the cycle before found and whatever became of   *)
(* its email; no cycle sleeps twice.                                       *)
(***************************************************************************)
C5_OneSleepBetweenChecks ==
    /\ gap \in {0 - 1, 1}
    /\ gap = 1 => sleptFor = cfg.interval
    /\ Count(log, "sleep") <= 1
    /\ Did("sleep") => (sleptFor = cfg.interval /\ pc = "read")

C5_Witness ==
    /\ gap = 1
    /\ Checked
    /\ prevMailed
    /\ idle = <<>>
    /\ pc = "tail"

(***************************************************************************)
(* C6.  With --once the program performs one check and terminates.         *)
(***************************************************************************)
C6_OnceTerminates ==
    (cfg.once /\ pc = "read") ~> (pc = "done")

(***************************************************************************)
(* C7.  The mail transport is contacted only in a cycle that raised the    *)
(* local alert, after it, and only with --email; without --email nothing   *)
(* of the email branch ever happens.                                       *)
(***************************************************************************)
C7_EmailOnlyAfterAlertWithEmail ==
    /\ (Did("smtp") \/ Did("skipped") \/ pc \in {"email", "sending"}) =>
          /\ cfg.email
          /\ Did("alert")
    /\ \A i \in 1..Len(log) :
          log[i] = "smtp" => \E j \in 1..(i - 1) : log[j] = "alert"
    /\ ~cfg.email => (sentMsg = <<>> /\ mail = "none")
    /\ sentMsg # <<>> => Did("smtp")

C7_Witness ==
    /\ Did("smtp")
    /\ Did("alert")
    /\ cfg.email
    /\ pc = "sending"

(***************************************************************************)
(* C8.  A cycle that finds idle devices raises exactly one alert, naming   *)
(* every idle device of the cycle, and contacts the mail transport at most *)
(* once; this is so also when the previous cycle alerted about the same    *)
(* devices.                                                                *)
(***************************************************************************)
C8_OneAlertPerCycleNeverSuppressed ==
    /\ Count(log, "alert") <= 1
    /\ Count(log, "smtp") <= 1
    /\ Len(sentMsg) <= 1
    /\ (Checked /\ pc \in PastAlert /\ idle # <<>>) =>
          /\ Count(log, "alert") = 1
          /\ Len(alert) = Len(idle)
          /\ \A i \in 1..Len(idle) : alert[i] = idle[i].index

C8_Witness ==
    /\ repeat
    /\ Did("alert")
    /\ Len(alert) = 2
    /\ pc = "tail"

(***************************************************************************)
(* C9.  What a cycle does is a function of its reading and the command     *)
(* line alone: whether it alerts, the devices it names and whether it      *)
(* contacts the mail transport are those the reading and the configuration *)
(* determine, whatever the earlier cycles read and did.                    *)
(***************************************************************************)
C9_CycleDependsOnReadingOnly ==
    (Checked /\ pc \in PastEmail) =>
        LET ids == [j \in 1..Cardinality(WithinAt) |->
                        gpus[Nth(WithinAt, j)].index]
        IN  /\ Did("alert") <=> ids # <<>>
            /\ alert = ids
            /\ Did("smtp") <=> (ids # <<>> /\ cfg.email /\ SmtpComplete(cfg))
            /\ status = gpus

C9_Witness ==
    /\ Checked
    /\ pc = "tail"
    /\ gap = 1
    /\ prevMailed
    /\ ~repeat
    /\ Did("smtp")

(***************************************************************************)
(* C10.  A failed telemetry read, in the first cycle or a later one, with  *)
(* or without --once, ends the program at once with exit code 2: the cycle *)
(* reports nothing, raises no alert, contacts no mail transport, and no    *)
(* sleep or retry follows.                                                 *)
(***************************************************************************)
C10_ReadFailureExitsTwo ==
    /\ Did("error") =>
          /\ pc = "done"
          /\ exitCode = 2
          /\ ~uncaught
          /\ log = <<"error">>
          /\ status = <<>>
          /\ alert = <<>>
          /\ sentMsg = <<>>
          /\ mail = "none"
          /\ ~ENABLED Next
    /\ exitCode = 2 => Did("error")

C10_Witness ==
    /\ Did("error")
    /\ exitCode = 2
    /\ gap = 1
    /\ ~cfg.once

(***************************************************************************)
(* C11.  A send that fails with an error is contained: the cycle prints    *)
(* "Email alert failed" after its alert, nothing is left of the exception, *)
(* and the cycle ends as after a successful send: the sleep in continuous  *)
(* mode, exit code 0 with --once.                                          *)
(***************************************************************************)
C11_EmailFailureContained ==
    Did("failed") =>
        /\ Did("alert")
        /\ Count(log, "failed") = 1
        /\ ~Did("sent")
        /\ ~uncaught
        /\ mail = "none"
        /\ pc \in PastEmail
        /\ pc = "tail" => (IF cfg.once THEN ENABLED ExitOnce ELSE ENABLED Sleep)
        /\ pc = "read" => (~cfg.once /\ Did("sleep") /\ exitCode = NoExit)
        /\ pc = "done" => (cfg.once /\ exitCode = 0)
        /\ ~cfg.once => exitCode = NoExit

C11_Witness ==
    /\ Did("failed")
    /\ Did("sleep")
    /\ pc = "read"
    /\ ~cfg.once

(***************************************************************************)
(* C12, as claimed.  With --email, when host, port, sender or recipients   *)
(* is missing after the fallback, the alerting cycle prints "Email alert   *)
(* skipped", hands nothing to the transport and ends like any alerting     *)
(* cycle; the transport is contacted only with all four set.  A setting    *)
(* counts as missing here when nothing is given for it: no host, sender or *)
(* recipient at all, no --smtp_port with SMTP_PORT unset or 0.             *)
(***************************************************************************)
NothingGivenFor ==
    {k \in {"smtp_host", "smtp_sender", "recipients"} : k \notin cfg.smtp}
    \cup (IF "smtp_port" \notin cfg.smtp /\ cfg.env_port \in {"", str(0)}
          THEN {"smtp_port"} ELSE {})

C12_MissingSettingSkipsEmail ==
    /\ (Did("smtp") \/ sentMsg # <<>> \/ pc = "sending" \/ mail # "none") =>
          NothingGivenFor = {}
    /\ (Did("alert") /\ cfg.email /\ pc \in PastEmail /\ NothingGivenFor # {}) =>
          /\ Count(log, "skipped") = 1
          /\ ~Did("smtp")
          /\ sentMsg = <<>>
          /\ mail = "none"
          /\ ~uncaught
          /\ pc = "tail" => (IF cfg.once THEN ENABLED ExitOnce ELSE ENABLED Sleep)
          /\ pc = "done" => (cfg.once /\ exitCode = 0)

(***************************************************************************)
(* C13.  In continuous mode the program terminates only by a failed        *)
(* telemetry read, with exit code 2: it never ends with another status.    *)
(***************************************************************************)
C13_ContinuousExitsOnlyOnReadFailure ==
    (~cfg.once /\ pc = "done") => (exitCode = 2 /\ Did("error"))

(***************************************************************************)
(* C14.  The steps of a cycle happen in one order: read, status report of  *)
(* every device, alert and bell, email attempt, its outcome, and only then *)
(* the sleep or the --once exit; the next read follows the sleep.          *)
(***************************************************************************)
Rank(e) ==
    CASE e = "read" -> 1
      [] e \in {"status", "status_json"} -> 2
      [] e = "alert" -> 3
      [] e = "bell" -> 4
      [] e \in {"smtp", "skipped"} -> 5
      [] e \in {"sent", "failed"} -> 6
      [] e = "sleep" -> 7
      [] OTHER -> 0

EmailResolved ==
    /\ (Did("alert") /\ cfg.email) => (Did("smtp") \/ Did("skipped"))
    /\ Did("smtp") => (Did("sent") \/ Did("failed"))

C14_CycleStepsSequential ==
    /\ \A i \in 1..(Len(log) - 1) : Rank(log[i]) < Rank(log[i + 1])
    /\ Checked => log[1] = "read"
    /\ Did("alert") => (Did("bell") /\ (Did("status") \/ Did("status_json")))
    /\ (Did("status") \/ Did("status_json")) => status = gpus
    /\ Did("sleep") => (EmailResolved /\ pc = "read")
    /\ (pc = "read" /\ log # <<>>) => log[Len(log)] = "sleep"
    /\ (pc = "done" /\ exitCode \in {0, 1} /\ ~uncaught) =>
          (cfg.once /\ EmailResolved /\ ~Did("sleep"))
    /\ pc = "tail" => EmailResolved
    /\ pc = "done" => (Did("smtp") => (Did("sent") \/ Did("failed")))

C14_Witness ==
    /\ pc = "read"
    /\ log = <<"read", "status", "alert", "bell", "smtp", "failed", "sleep">>
    /\ Len(status) = 2

(***************************************************************************)
(* C15.  The ALERT line names the indexes of the devices classified idle,  *)
(* in reading order; the mail subject names the same list and the mail     *)
(* body lists every device of the reading, idle or busy.                   *)
(***************************************************************************)
C15_AlertNamesIdleMailListsAll ==
    /\ Did("alert") =>
          /\ Len(alert) = Cardinality(WithinAt)
          /\ \A j \in 1..Len(alert) : alert[j] = gpus[Nth(WithinAt, j)].index
    /\ \A i \in 1..Len(sentMsg) :
          /\ sentMsg[i].subject = alert
          /\ sentMsg[i].body = gpus
          /\ Len(sentMsg[i].subject) = Len(idle)

C15_Witness ==
    /\ Len(sentMsg) = 1
    /\ Len(gpus) = 2
    /\ ~MeetsThresholds(gpus[1])
    /\ MeetsThresholds(gpus[2])
    /\ sentMsg[1].subject = <<gpus[2].index>>
    /\ Len(sentMsg[1].body) = 2

====
